---- MODULE Spec2Model ----
(***************************************************************************)
(* PoetBlockVerifier.verify_block                                          *)
(* (sawtooth_poet/poet_consensus/poet_block_verifier.py).                  *)
(*                                                                         *)
(* The block cache and the ledger state behind the state view factory are  *)
(* the environment: verify_block only reads them.  Every verify_block call *)
(* in flight has a frame holding its local variables and its position in   *)
(* the method; one action is one collaborator call of the method together  *)
(* with the exception handling that follows it.                            *)
(*                                                                         *)
(* utils.build_certificate_list, utils.deserialize_wait_certificate,       *)
(* WaitCertificate.check_valid, ValidatorRegistryView, the state view      *)
(* factory and PoetEnclaveFactory are not part of poet_block_verifier.py;  *)
(* they are modelled from their described contracts.                       *)
(***************************************************************************)
EXTENDS Integers, Sequences, FiniteSets

\* ------------------------------------------------------------------ bounds

\* Length of the chain of blocks a candidate may extend (block ids 1..MaxChain,
\* block i's previous_block_id is i - 1, and 0 is the null identifier).
MaxChain == 3

\* WaitTimer.certificate_sample_length, scaled down so that chains longer than
\* the sample exist within MaxChain.
certificate_sample_length == 2

BlockIds == 1..MaxChain

\* State root hashes, block signer public keys.
Roots == {"r0", "r1"}
Keys == {"k1", "k2"}

\* Python exception classes, as far as verify_block tells them apart:
\* KeyError, ValueError, and every other class.
ExcClass == {"KeyError", "ValueError", "Other"}

\* The serialized wait certificate in a candidate's consensus payload: one that
\* deserializes and passes check_valid, one that deserializes and fails
\* check_valid, one that does not deserialize.
Payloads == {"valid", "invalid", "malformed"}

\* The registries the ledger state may hold at a state root.
Registries == {{}, {"k1"}}

\* The verify_block calls that may be in flight.
Calls == {1, 2}

VARIABLES
    block_cache,       \* self._block_cache: block id -> block or absent
    registry,          \* ledger state: state root -> registered signer keys
    structural_error,  \* the exception class deserialization raises on a malformed payload
    callers,           \* the calls the chain controller runs
    enclave_cache,     \* PoetEnclaveFactory: epoch -> the handle initialized for it
    frame              \* call -> the locals and position of that verify_block call

vars == <<block_cache, registry, structural_error, callers, enclave_cache, frame>>

\* ------------------------------------------------------------- environment

Absent == [present |-> FALSE, state_root_hash |-> "none", has_cert |-> FALSE]

\* The state root a cached block of the chain resulted in: consecutive blocks
\* result in different roots.
BlockRoot(block_id) == IF block_id % 2 = 1 THEN "r1" ELSE "r0"

\* What the cache may hold for a block id: nothing, a block whose payload holds
\* no wait certificate, a block with a wait certificate.
BlockStates == {"absent", "nocert", "cert"}

Block(block_id, kind) ==
    IF kind = "absent" THEN Absent
    ELSE [present |-> TRUE, state_root_hash |-> BlockRoot(block_id),
          has_cert |-> (kind = "cert")]

\* block_wrapper: the candidate handed to verify_block.
Candidates ==
    [previous_block_id : BlockIds,
     state_root_hash : Roots,
     signer_pubkey : Keys,
     consensus : Payloads]

NoCandidate ==
    [previous_block_id |-> 0, state_root_hash |-> "none",
     signer_pubkey |-> "none", consensus |-> "none"]

None == 0

\* The chain epochs (attestation scheme versions) the enclave factory keys its
\* handles by; every state root of the chain modelled is of one epoch.
Epochs == {"e0"}

Epoch(state_view) == "e0"

\* No handle initialized yet; a handle is named by the number of the
\* initialization that made it.
NoHandle == 0

PoetPublicKey(signer) == <<"poet", signer>>

NoValidatorInfo == [id |-> "none", poet_public_key |-> <<"poet", "none">>]

NoCertificate == [kind |-> "none", poet_public_key |-> <<"poet", "none">>]

NoFailure == [site |-> "none", kind |-> "none"]

NoCheck ==
    [certificate |-> NoCertificate, certificates |-> <<>>,
     poet_public_key |-> <<"poet", "none">>, poet_enclave_module |-> "none"]

IdleFrame ==
    [pc |-> "idle",
     block_wrapper |-> NoCandidate,
     previous_block |-> None,
     state_view |-> "none",
     poet_enclave_module |-> "none",
     enclave_handle |-> NoHandle,
     validator_registry_view |-> "none",
     validator_info |-> NoValidatorInfo,
     certificates |-> <<>>,
     wait_certificate |-> NoCertificate,
     result |-> "none",
     raised |-> "none",
     log |-> <<>>,
     steps |-> <<>>,
     views |-> 0,
     fetched |-> 0,
     failure |-> NoFailure,
     checked |-> NoCheck]

\* ------------------------------------------------------------ collaborators

\* self._block_cache[block_id]: the block, or KeyError when it is not cached.
InCache(block_id) == block_id \in BlockIds /\ block_cache[block_id].present

\* utils.build_certificate_list: walk back from block_id, most recent first,
\* until maximum_number certificates are collected, the chain start is
\* reached, a block is not cached, or a block holds no certificate.  A
\* certificate is named by the id of the block that carries it.
RECURSIVE WalkCertificates(_, _, _, _)
WalkCertificates(block_id, acc, fetched, maximum_number) ==
    IF Len(acc) >= maximum_number \/ block_id = 0
    THEN [certificates |-> acc, fetched |-> fetched]
    ELSE IF ~InCache(block_id) \/ ~block_cache[block_id].has_cert
    THEN [certificates |-> acc, fetched |-> fetched + 1]
    ELSE WalkCertificates(block_id - 1, Append(acc, block_id),
                          fetched + 1, maximum_number)

build_certificate_list(block_header, maximum_number) ==
    WalkCertificates(block_header.previous_block_id, <<>>, 0, maximum_number)

\* utils.deserialize_wait_certificate on a payload that is not malformed: the
\* certificate, with the PoET public key it was created under.
deserialize_wait_certificate(block) ==
    [kind |-> block.consensus,
     poet_public_key |-> PoetPublicKey(block.signer_pubkey)]

\* WaitCertificate.check_valid: TRUE when the check passes, FALSE when it
\* fails with a validation error.
check_valid(wait_certificate, certificates, poet_public_key) ==
    /\ wait_certificate.kind = "valid"
    /\ wait_certificate.poet_public_key = poet_public_key

\* ValidatorRegistryView(state_view).get_validators()
get_validators(state_view) == registry[state_view]

\* ValidatorRegistryView(state_view).get_validator_info(signer_pubkey), when
\* the signer is registered.
get_validator_info(signer_pubkey) ==
    [id |-> signer_pubkey, poet_public_key |-> PoetPublicKey(signer_pubkey)]

\* --------------------------------------------------------- verify_block

WARN_DEFAULT == "warning: Block accepted by default because no validators registered"
ERR_NO_ENTRY == "error: Attempted to verify block from validator with no validator registry entry"
ERR_NOT_VALID == "error: Wait certificate is not valid"
WARN_ACCEPT == "warning: We will accept for now"

Called(f, site) == [f EXCEPT !.steps = Append(@, site)]

\* An exception that no handler of verify_block catches leaves the call.
Propagate(f, cls) ==
    [f EXCEPT !.pc = "done", !.raised = cls]

\* return True (line 142)
ReturnTrue(f) ==
    [f EXCEPT !.pc = "done", !.result = "True"]

\* The KeyError handler, were it to return False without a log record.
ExceptKeyErrorSilent(f) ==
    [f EXCEPT !.pc = "done", !.result = "False"]

\* The KeyError handler, were it to log and fall through to line 142.
ExceptKeyErrorAccepts(f) ==
    [f EXCEPT !.pc = "done", !.result = "True",
              !.log = Append(@, ERR_NO_ENTRY)]

\* except KeyError: (lines 130-134)
ExceptKeyError(f) ==
    [f EXCEPT !.pc = "done", !.result = "False",
              !.log = Append(@, ERR_NO_ENTRY)]

\* The ValueError handler, were it to return False after logging.
ExceptValueErrorRejects(f) ==
    [f EXCEPT !.pc = "done", !.result = "False",
              !.log = @ \o <<ERR_NOT_VALID, WARN_ACCEPT>>]

\* except ValueError: (lines 135-137), then line 142
ExceptValueError(f) ==
    ReturnTrue([f EXCEPT !.log = @ \o <<ERR_NOT_VALID, WARN_ACCEPT>>])

\* An exception of class cls raised inside the try block (lines 93-137).
RaisedInTry(f, cls) ==
    IF cls = "KeyError" THEN ExceptKeyError(f)
    ELSE IF cls = "ValueError" THEN ExceptValueError(f)
    ELSE Propagate(f, cls)

Failed(f, site, kind) == [f EXCEPT !.failure = [site |-> site, kind |-> kind]]

\* What verify_block is constructed with, and the ledger state behind it.
World == <<block_cache, registry, structural_error, callers>>

Env == <<World, enclave_cache>>

\* The chain controller calls verify_block(block_wrapper).
Begin(c) ==
    /\ c \in callers
    /\ frame[c].pc = "idle"
    /\ \E b \in Candidates :
         frame' = [frame EXCEPT ![c] =
                     [IdleFrame EXCEPT !.pc = "lookup_previous",
                                       !.block_wrapper = b]]
    /\ UNCHANGED Env

\* The lookup, were a miss to leave an entry behind in the cache (as with
\* setdefault, or a dict that creates what it is asked for).
LookupPreviousStoring(c) ==
    /\ frame[c].pc = "lookup_previous"
    /\ LET f == Called(frame[c], "block_cache")
           id == f.block_wrapper.previous_block_id
       IN /\ frame' = [frame EXCEPT ![c] =
                         [f EXCEPT !.pc = "create_view",
                                   !.previous_block =
                                       IF InCache(id) THEN id ELSE None]]
          /\ block_cache' = IF InCache(id) THEN block_cache
                            ELSE [block_cache EXCEPT ![id] = Block(id, "nocert")]
    /\ UNCHANGED <<registry, structural_error, callers, enclave_cache>>

\* Lines 71-76: previous_block = self._block_cache[previous_block_id], and
\* None on KeyError.  A KeyError is the cache's answer for a block it does not
\* hold; an exception of another class is not caught.
LookupPrevious(c) ==
    /\ frame[c].pc = "lookup_previous"
    /\ LET f == Called(frame[c], "block_cache")
           id == f.block_wrapper.previous_block_id
       IN \/ frame' = [frame EXCEPT ![c] =
                         [f EXCEPT !.pc = "create_view",
                                   !.previous_block =
                                       IF InCache(id) THEN id ELSE None]]
          \/ \E cls \in ExcClass \ {"KeyError"} :
               frame' = [frame EXCEPT ![c] =
                           Propagate(Failed(f, "block_cache", "unexpected"), cls)]
    /\ UNCHANGED Env

\* The state root, were the candidate's own always taken.
StateRootHashOfCandidate(f) == f.block_wrapper.state_root_hash

\* Lines 82-85: the state root the view is created for.
StateRootHash(f) ==
    IF f.previous_block # None
    THEN block_cache[f.previous_block].state_root_hash
    ELSE f.block_wrapper.state_root_hash

\* create_view, were the view kept in a field of the verifier (self._state_view)
\* instead of a local: every call in flight then reads the last view created.
CreateViewInField(c) ==
    /\ frame[c].pc = "create_view"
    /\ LET f == Called(frame[c], "create_view")
       IN frame' = [d \in Calls |->
                      IF d = c
                      THEN [f EXCEPT !.pc = "get_poet_enclave_module",
                                     !.state_view = StateRootHash(f),
                                     !.views = @ + 1]
                      ELSE IF frame[d].state_view # "none"
                      THEN [frame[d] EXCEPT !.state_view = StateRootHash(f)]
                      ELSE frame[d]]
    /\ UNCHANGED Env

\* Line 86: state_view = self._state_view_factory.create_view(state_root_hash)
CreateView(c) ==
    /\ frame[c].pc = "create_view"
    /\ LET f == Called(frame[c], "create_view")
       IN \/ frame' = [frame EXCEPT ![c] =
                         [f EXCEPT !.pc = "get_poet_enclave_module",
                                   !.state_view = StateRootHash(f),
                                   !.views = @ + 1]]
          \/ \E cls \in ExcClass :
               frame' = [frame EXCEPT ![c] =
                           Propagate(Failed(f, "create_view", "unexpected"), cls)]
    /\ UNCHANGED Env

\* The factory, were it to initialize a handle on every request.
get_poet_enclave_module_uncached(cache, state_view) ==
    LET e == Epoch(state_view)
    IN [cache |-> [cache EXCEPT ![e] = @ + 1], handle |-> cache[e] + 1]

\* PoetEnclaveFactory.get_poet_enclave_module(state_view): the handle of the
\* view's epoch, initialized on the first request for that epoch and kept;
\* lookup and initialization are one indivisible step.
get_poet_enclave_module(cache, state_view) ==
    LET e == Epoch(state_view)
    IN IF cache[e] # NoHandle
       THEN [cache |-> cache, handle |-> cache[e]]
       ELSE [cache |-> [cache EXCEPT ![e] = 1], handle |-> 1]

\* The view the enclave module would be selected for, were a view of the
\* candidate's own state root created for it.
ModuleViewOfCandidate(f) == f.block_wrapper.state_root_hash

\* Line 89: get_poet_enclave_module(state_view)
ModuleView(f) == f.state_view

\* Lines 88-89: the enclave module is selected for, and bound to, state_view.
GetPoetEnclaveModule(c) ==
    /\ frame[c].pc = "get_poet_enclave_module"
    /\ LET f == Called(frame[c], "get_poet_enclave_module")
           got == get_poet_enclave_module(enclave_cache, ModuleView(f))
       IN \/ /\ frame' = [frame EXCEPT ![c] =
                            [f EXCEPT !.pc = "get_validators",
                                      !.poet_enclave_module = ModuleView(f),
                                      !.enclave_handle = got.handle]]
             /\ enclave_cache' = got.cache
          \/ /\ \E cls \in ExcClass :
                  frame' = [frame EXCEPT ![c] =
                              Propagate(Failed(f, "get_poet_enclave_module",
                                               "unexpected"), cls)]
             /\ UNCHANGED enclave_cache
    /\ UNCHANGED World

\* Lines 138-142: no validators registered.
AcceptByDefault(f) ==
    ReturnTrue([f EXCEPT !.log = Append(@, WARN_DEFAULT)])

\* The registry test, were it written >= 0.
HasValidatorsAlways(state_view) == Cardinality(get_validators(state_view)) >= 0

\* Line 92: len(validator_registry_view.get_validators()) > 0
HasValidators(state_view) == Cardinality(get_validators(state_view)) > 0

\* Line 91: validator_registry_view = ValidatorRegistryView(state_view)
RegistryView(f) == f.state_view

\* Lines 91-92: if len(validator_registry_view.get_validators()) > 0
GetValidators(c) ==
    /\ frame[c].pc = "get_validators"
    /\ LET f == Called(frame[c], "get_validators")
           v == [f EXCEPT !.validator_registry_view = RegistryView(f)]
       IN \/ frame' = [frame EXCEPT ![c] =
                         IF HasValidators(v.validator_registry_view)
                         THEN [v EXCEPT !.pc = "get_validator_info"]
                         ELSE AcceptByDefault(v)]
          \/ \E cls \in ExcClass :
               frame' = [frame EXCEPT ![c] =
                           Propagate(Failed(f, "get_validators", "unexpected"), cls)]
    /\ UNCHANGED Env

\* The lookup, were a miss to end the try block only after the walk (the
\* lookup giving None, the failure surfacing when validator_info is used).
GetValidatorInfoLate(c) ==
    /\ frame[c].pc = "get_validator_info"
    /\ LET f == Called(frame[c], "get_validator_info")
       IN frame' = [frame EXCEPT ![c] =
                      IF f.block_wrapper.signer_pubkey
                             \in get_validators(f.validator_registry_view)
                      THEN [f EXCEPT !.pc = "build_certificate_list",
                                     !.validator_info =
                                         get_validator_info(
                                             f.block_wrapper.signer_pubkey)]
                      ELSE [Failed(f, "get_validator_info", "not_found")
                               EXCEPT !.pc = "build_certificate_list"]]
    /\ UNCHANGED Env

\* Lines 96-107: validator_info = get_validator_info(header.signer_pubkey);
\* KeyError when the signer has no registry entry.
GetValidatorInfo(c) ==
    /\ frame[c].pc = "get_validator_info"
    /\ LET f == Called(frame[c], "get_validator_info")
       IN \/ frame' = [frame EXCEPT ![c] =
                         IF f.block_wrapper.signer_pubkey
                                \in get_validators(f.validator_registry_view)
                         THEN [f EXCEPT !.pc = "build_certificate_list",
                                        !.validator_info =
                                            get_validator_info(
                                                f.block_wrapper.signer_pubkey)]
                         ELSE RaisedInTry(Failed(f, "get_validator_info",
                                                 "not_found"), "KeyError")]
          \/ \E cls \in ExcClass :
               frame' = [frame EXCEPT ![c] =
                           RaisedInTry(Failed(f, "get_validator_info",
                                              "unexpected"), cls)]
    /\ UNCHANGED Env

\* The sample bound, were it one too many.
MaximumNumberOffByOne == certificate_sample_length + 1

\* Line 118: maximum_number=WaitTimer.certificate_sample_length
MaximumNumber == certificate_sample_length

\* The header handed to the walk, were it the previous block's.
BuildHeaderOfPrevious(f) ==
    [f.block_wrapper EXCEPT !.previous_block_id =
        IF @ > 0 THEN @ - 1 ELSE 0]

\* Line 115: block_header=block_wrapper.header
BuildHeader(f) == f.block_wrapper

\* Lines 113-118: certificates = utils.build_certificate_list(...)
BuildCertificateList(c) ==
    /\ frame[c].pc = "build_certificate_list"
    /\ LET f == Called(frame[c], "build_certificate_list")
           built == build_certificate_list(BuildHeader(f), MaximumNumber)
       IN \/ frame' = [frame EXCEPT ![c] =
                         [f EXCEPT !.pc = "deserialize_wait_certificate",
                                   !.certificates = built.certificates,
                                   !.fetched = built.fetched]]
          \/ \E cls \in ExcClass :
               frame' = [frame EXCEPT ![c] =
                           RaisedInTry(Failed(f, "build_certificate_list",
                                              "unexpected"), cls)]
    /\ UNCHANGED Env

\* Lines 122-125: wait_certificate = utils.deserialize_wait_certificate(...)
DeserializeWaitCertificate(c) ==
    /\ frame[c].pc = "deserialize_wait_certificate"
    /\ LET f == Called(frame[c], "deserialize_wait_certificate")
       IN \/ frame' = [frame EXCEPT ![c] =
                         IF f.block_wrapper.consensus # "malformed"
                         THEN [f EXCEPT !.pc = "check_valid",
                                        !.wait_certificate =
                                            deserialize_wait_certificate(
                                                f.block_wrapper)]
                         ELSE RaisedInTry(Failed(f, "deserialize_wait_certificate",
                                                 "structural"), structural_error)]
          \/ \E cls \in ExcClass :
               /\ f.block_wrapper.consensus # "malformed"
               /\ frame' = [frame EXCEPT ![c] =
                              RaisedInTry(Failed(f, "deserialize_wait_certificate",
                                                 "unexpected"), cls)]
    /\ UNCHANGED Env

\* The key handed to check_valid, were it the block signer's public key.
CheckValidKeyOfSigner(f) == <<"signer", f.block_wrapper.signer_pubkey>>

\* Line 129: poet_public_key=validator_info.signup_info.poet_public_key
CheckValidKey(f) == f.validator_info.poet_public_key

\* Lines 126-129: wait_certificate.check_valid(...); ValueError when the
\* certificate is not valid.
CheckValid(c) ==
    /\ frame[c].pc = "check_valid"
    /\ LET f0 == Called(frame[c], "check_valid")
           f == [f0 EXCEPT !.checked =
                    [certificate |-> f0.wait_certificate,
                     certificates |-> f0.certificates,
                     poet_public_key |-> CheckValidKey(f0),
                     poet_enclave_module |-> f0.poet_enclave_module]]
       IN \/ frame' = [frame EXCEPT ![c] =
                         IF check_valid(f.checked.certificate,
                                        f.checked.certificates,
                                        f.checked.poet_public_key)
                         THEN ReturnTrue(f)
                         ELSE RaisedInTry(Failed(f, "check_valid", "validation"),
                                          "ValueError")]
          \/ \E cls \in ExcClass :
               frame' = [frame EXCEPT ![c] =
                           RaisedInTry(Failed(f, "check_valid", "unexpected"), cls)]
    /\ UNCHANGED Env

\* verify_block has returned or raised; its frame is gone.
Return(c) ==
    /\ frame[c].pc = "done"
    /\ frame' = [frame EXCEPT ![c] = IdleFrame]
    /\ UNCHANGED Env

\* One verify_block call at a time, over every block cache and ledger state.
Init ==
    /\ block_cache \in {[i \in BlockIds |-> Block(i, k[i])] :
                            k \in [BlockIds -> BlockStates]}
    /\ registry \in [Roots -> Registries]
    /\ structural_error \in ExcClass
    /\ callers = {1}
    /\ enclave_cache = [e \in Epochs |-> NoHandle]
    /\ frame = [c \in Calls |-> IdleFrame]

Next ==
    \E c \in Calls :
        \/ Begin(c)
        \/ LookupPrevious(c)
        \/ CreateView(c)
        \/ GetPoetEnclaveModule(c)
        \/ GetValidators(c)
        \/ GetValidatorInfo(c)
        \/ BuildCertificateList(c)
        \/ DeserializeWaitCertificate(c)
        \/ CheckValid(c)
        \/ Return(c)

Spec == Init /\ [][Next]_vars

\* Two verify_block calls in flight at once, for candidates of competing
\* forks, over a cache that lacks the chain's last block (a candidate extending
\* it has no cached predecessor, the others have) and a ledger state whose
\* registry is empty at one root and not at the other.
InitConc ==
    /\ block_cache = [i \in BlockIds |->
                         Block(i, IF i = MaxChain THEN "absent" ELSE "cert")]
    /\ registry = [r \in Roots |-> IF r = "r1" THEN {"k1"} ELSE {}]
    /\ structural_error = "Other"
    /\ callers = Calls
    /\ enclave_cache = [e \in Epochs |-> NoHandle]
    /\ frame = [c \in Calls |-> IdleFrame]

SpecConc == InitConc /\ [][Next]_vars

\* ---------------------------------------------------------------- claims

IsDone(c) == frame[c].pc = "done"

\* The collaborator call at site was made by call c.
Reached(c, site) ==
    \E i \in 1..Len(frame[c].steps) : frame[c].steps[i] = site

\* ... and it did not fail outside its contract.
Performed(c, site) ==
    /\ Reached(c, site)
    /\ ~(frame[c].failure.site = site /\ frame[c].failure.kind = "unexpected")

PreviousInCache(c) == InCache(frame[c].block_wrapper.previous_block_id)

\* The state root the call's candidate resolves to.
ResolvedRoot(b) ==
    IF InCache(b.previous_block_id)
    THEN block_cache[b.previous_block_id].state_root_hash
    ELSE b.state_root_hash

RegistryOf(c) == registry[ResolvedRoot(frame[c].block_wrapper)]

ProposerRegistered(c) == frame[c].block_wrapper.signer_pubkey \in RegistryOf(c)

\* C1: every verify_block call ends by returning a boolean; no exception
\* leaves it.
C1_NeverRaises ==
    \A c \in Calls :
        IsDone(c) =>
            /\ frame[c].raised = "none"
            /\ frame[c].result \in {"True", "False"}

\* C2: with a non-empty registry and a registered proposer, a candidate whose
\* own wait certificate fails to deserialize is rejected: the call returns
\* False.
C2_MalformedRejected ==
    \A c \in Calls :
        ( /\ IsDone(c)
          /\ RegistryOf(c) # {}
          /\ ProposerRegistered(c)
          /\ frame[c].failure =
                [site |-> "deserialize_wait_certificate", kind |-> "structural"] )
        => frame[c].result = "False"

\* C3: when the registry is non-empty and the lookup by the signer's public
\* key finds no entry, the call returns False, whatever the candidate's
\* certificate and ancestry.
C3_UnregisteredRejected ==
    \A c \in Calls :
        ( /\ Performed(c, "get_validator_info")
          /\ RegistryOf(c) # {}
          /\ ~ProposerRegistered(c) )
        => /\ IsDone(c)
           /\ frame[c].result = "False"
           /\ frame[c].raised = "none"

C3_Witness ==
    \E c \in Calls :
        /\ Performed(c, "get_validator_info")
        /\ RegistryOf(c) # {}
        /\ ~ProposerRegistered(c)
        /\ frame[c].block_wrapper.consensus = "valid"
        /\ PreviousInCache(c)
        /\ frame[c].result = "False"

\* C4: when the registry has no registered identity, the call returns True,
\* whatever the candidate's certificate and signer.
C4_EmptyRegistryAccepts ==
    \A c \in Calls :
        ( /\ Performed(c, "get_validators")
          /\ RegistryOf(c) = {} )
        => /\ IsDone(c)
           /\ frame[c].result = "True"
           /\ frame[c].raised = "none"

C4_Witness ==
    \E c \in Calls :
        /\ Performed(c, "get_validators")
        /\ RegistryOf(c) = {}
        /\ frame[c].block_wrapper.consensus = "malformed"
        /\ frame[c].result = "True"

\* C5: when check_valid fails with a validation error the call returns True
\* after logging the failure and the warning; it never rejects.
C5_InvalidAccepted ==
    \A c \in Calls :
        ( /\ Performed(c, "check_valid")
          /\ frame[c].block_wrapper.consensus = "invalid" )
        => /\ IsDone(c)
           /\ frame[c].failure = [site |-> "check_valid", kind |-> "validation"]
           /\ frame[c].result = "True"
           /\ frame[c].raised = "none"
           /\ frame[c].log = <<ERR_NOT_VALID, WARN_ACCEPT>>

C5_Witness ==
    \E c \in Calls :
        /\ frame[c].failure = [site |-> "check_valid", kind |-> "validation"]
        /\ RegistryOf(c) # {}
        /\ ProposerRegistered(c)
        /\ frame[c].result = "True"
        /\ frame[c].log = <<ERR_NOT_VALID, WARN_ACCEPT>>

\* C6: the state view is created for the previous block's state root when the
\* previous block is cached and for the candidate's own state root when it is
\* not; an absent previous block is no error (the call goes on to create the
\* view, nothing logged) and no call returns False without a failed lookup,
\* deserialization or check behind it.
C6_StateRootUsed ==
    \A c \in Calls :
        /\ Performed(c, "create_view") =>
              frame[c].state_view =
                  IF PreviousInCache(c)
                  THEN block_cache[frame[c].block_wrapper.previous_block_id]
                           .state_root_hash
                  ELSE frame[c].block_wrapper.state_root_hash
        /\ ( /\ Performed(c, "block_cache")
             /\ ~Reached(c, "create_view")
             /\ ~PreviousInCache(c) )
           => /\ frame[c].pc = "create_view"
              /\ frame[c].previous_block = None
              /\ frame[c].log = <<>>
        /\ frame[c].result = "False" => frame[c].failure.kind # "none"

C6_Witness ==
    \E c \in Calls :
        /\ IsDone(c)
        /\ ~PreviousInCache(c)
        /\ frame[c].state_view = frame[c].block_wrapper.state_root_hash
        /\ frame[c].state_view #
              BlockRoot(frame[c].block_wrapper.previous_block_id)
        /\ RegistryOf(c) # {}
        /\ frame[c].result = "True"

\* C7: a call returns True unless the proposer's lookup found no entry or the
\* candidate's own certificate failed to deserialize, and returns False only
\* in those two cases.
C7_TrueUnlessExplicitReject ==
    \A c \in Calls :
        IsDone(c) =>
            \/ frame[c].result = "True"
            \/ /\ frame[c].result = "False"
               /\ frame[c].failure.kind \in {"not_found", "structural"}

\* The ancestors of the candidate that are cached and carry a certificate.
CertifiedAncestors(c) ==
    {i \in 1..frame[c].block_wrapper.previous_block_id :
        InCache(i) /\ block_cache[i].has_cert}

\* C8: the certificate sample has at most certificate_sample_length entries
\* and at most as many as the candidate has cached ancestors with a
\* certificate; it is empty when the previous block is absent.
C8_SampleBounded ==
    \A c \in Calls :
        /\ Len(frame[c].certificates) <= certificate_sample_length
        /\ Len(frame[c].certificates) <= Cardinality(CertifiedAncestors(c))
        /\ ~PreviousInCache(c) => frame[c].certificates = <<>>

C8_Witness ==
    \E c \in Calls :
        /\ Performed(c, "build_certificate_list")
        /\ Cardinality(CertifiedAncestors(c)) > certificate_sample_length
        /\ Len(frame[c].certificates) = certificate_sample_length

\* C9: an unexpected failure of a collaborator makes the call return False.
C9_UnexpectedRejects ==
    \A c \in Calls :
        (IsDone(c) /\ frame[c].failure.kind = "unexpected")
        => frame[c].result = "False"

\* What verify_block gives for candidate b when it runs alone against the
\* block cache and ledger state, no collaborator failing outside its contract:
\* "True", "False", or the class of the exception that leaves it.
VerifyAlone(b) ==
    LET root == ResolvedRoot(b)
    IN IF registry[root] = {} THEN "True"
       ELSE IF b.signer_pubkey \notin registry[root] THEN "False"
       ELSE IF b.consensus = "malformed"
       THEN (IF structural_error = "KeyError" THEN "False"
             ELSE IF structural_error = "ValueError" THEN "True"
             ELSE structural_error)
       ELSE "True"

Outcome(c) ==
    IF frame[c].raised # "none" THEN frame[c].raised ELSE frame[c].result

\* C10: under every interleaving of concurrent calls, each call works on the
\* state view, enclave module, registry entry and certificate sample of its
\* own candidate, and ends as it does when run alone.
C10_CallsIndependent ==
    \A c \in Calls :
        LET b == frame[c].block_wrapper
        IN /\ frame[c].state_view \in {"none", ResolvedRoot(b)}
           /\ frame[c].poet_enclave_module \in {"none", ResolvedRoot(b)}
           /\ frame[c].validator_info \in
                 {NoValidatorInfo, get_validator_info(b.signer_pubkey)}
           /\ Performed(c, "build_certificate_list") =>
                 frame[c].certificates =
                     build_certificate_list(b, certificate_sample_length)
                         .certificates
           /\ Reached(c, "check_valid") =>
                 /\ frame[c].checked.certificates =
                       build_certificate_list(b, certificate_sample_length)
                           .certificates
                 /\ frame[c].checked.poet_enclave_module = ResolvedRoot(b)
           /\ (IsDone(c) /\ frame[c].failure.kind # "unexpected") =>
                 Outcome(c) = VerifyAlone(b)

C10_Witness ==
    /\ \A c \in Calls : IsDone(c) /\ frame[c].failure.kind # "unexpected"
    /\ PreviousInCache(1)
    /\ ~PreviousInCache(2)
    /\ Reached(1, "check_valid")
    /\ frame[1].checked.certificates # <<>>
    /\ frame[1].result = "True"
    /\ frame[2].result = "False"

C12_NoSharedMutation ==
    [][block_cache' = block_cache /\ registry' = registry]_vars

\* A call that went down the longest path, lenient acceptance, has ended.
C12_Witness ==
    \E c \in Calls :
        /\ IsDone(c)
        /\ ~PreviousInCache(c)
        /\ frame[c].failure = [site |-> "check_valid", kind |-> "validation"]
        /\ frame[c].result = "True"

HasCertificate(block_id) ==
    InCache(block_id) /\ block_cache[block_id].has_cert

\* C13: the sample holds the certificates of the candidate's previous block,
\* of that block's previous block, and so on, each a cached strict ancestor
\* that carries a certificate, never the candidate's own; the walk stops only
\* when certificate_sample_length are collected, the chain start is reached,
\* or the next ancestor is not cached or carries no certificate.
C13_SampleIsAncestry ==
    \A c \in Calls :
        Performed(c, "build_certificate_list") =>
            LET p == frame[c].block_wrapper.previous_block_id
                s == frame[c].certificates
                k == Len(frame[c].certificates)
            IN /\ \A i \in 1..k :
                     /\ s[i] = p - i + 1
                     /\ s[i] \in 1..p
                     /\ HasCertificate(s[i])
               /\ \/ k = certificate_sample_length
                  \/ p - k = 0
                  \/ ~HasCertificate(p - k)

\* A walk that stopped short of the bound at a cached ancestor holding no
\* certificate.
C13_Witness ==
    \E c \in Calls :
        LET p == frame[c].block_wrapper.previous_block_id
        IN /\ Performed(c, "build_certificate_list")
           /\ frame[c].certificates = <<p>>
           /\ p >= 2
           /\ InCache(p - 1)
           /\ ~block_cache[p - 1].has_cert
           /\ Len(frame[c].certificates) < certificate_sample_length

\* The next step of call c's verify_block.
StepOf(c) ==
    \/ LookupPrevious(c)
    \/ CreateView(c)
    \/ GetPoetEnclaveModule(c)
    \/ GetValidators(c)
    \/ GetValidatorInfo(c)
    \/ BuildCertificateList(c)
    \/ DeserializeWaitCertificate(c)
    \/ CheckValid(c)

\* One call at a time over every cache of blocks that carry certificates, the
\* registry empty at one state root and not at the other.
InitFair ==
    /\ block_cache \in {[i \in BlockIds |-> Block(i, k[i])] :
                            k \in [BlockIds -> {"absent", "cert"}]}
    /\ registry = [r \in Roots |-> IF r = "r1" THEN {"k1"} ELSE {}]
    /\ structural_error \in ExcClass
    /\ callers = {1}
    /\ enclave_cache = [e \in Epochs |-> NoHandle]
    /\ frame = [c \in Calls |-> IdleFrame]

\* A call that has been made keeps running: the thread it runs on is
\* scheduled, and no step of verify_block waits for another call.
FairSpec ==
    InitFair /\ [][Next]_vars /\ \A c \in Calls : WF_vars(StepOf(c))

\* C14: every verify_block call that is made ends, and the walk that builds
\* its sample fetches at most certificate_sample_length blocks from the cache,
\* however many ancestors the candidate has.
C14_TerminatesBoundedFetch ==
    /\ \A c \in Calls :
          (frame[c].pc = "lookup_previous") ~> (frame[c].pc = "done")
    /\ [](\A c \in Calls : frame[c].fetched <= certificate_sample_length)

\* A call over more certified ancestors than the sample holds has ended, having
\* fetched as many blocks as the sample holds.
C14_Witness ==
    \E c \in Calls :
        /\ IsDone(c)
        /\ Reached(c, "check_valid")
        /\ Cardinality(CertifiedAncestors(c)) > certificate_sample_length
        /\ frame[c].fetched = certificate_sample_length

\* C15: a call that has ended logged exactly the records of its branch:
\* acceptance over an empty registry, the 'accepted by default' warning;
\* rejection of an unregistered proposer, the 'no validator registry entry'
\* error; acceptance of a certificate that failed check_valid, the 'not valid'
\* error and then the 'accept for now' warning; acceptance of a certificate
\* that passed check_valid, nothing.  Every call that returns False logged
\* the 'no validator registry entry' error.
C15_BranchLogs ==
    \A c \in Calls :
        IsDone(c) =>
            /\ (Performed(c, "get_validators") /\ RegistryOf(c) = {})
                  => frame[c].log = <<WARN_DEFAULT>>
            /\ frame[c].failure.kind = "not_found"
                  => frame[c].log = <<ERR_NO_ENTRY>>
            /\ frame[c].failure.kind = "validation"
                  => frame[c].log = <<ERR_NOT_VALID, WARN_ACCEPT>>
            /\ (Performed(c, "check_valid") /\ frame[c].failure.kind = "none")
                  => frame[c].result = "True" /\ frame[c].log = <<>>
            /\ frame[c].result = "False"
                  => frame[c].log = <<ERR_NO_ENTRY>>

C15_Witness ==
    \E c \in Calls :
        /\ IsDone(c)
        /\ frame[c].failure =
              [site |-> "get_validator_info", kind |-> "not_found"]
        /\ frame[c].result = "False"
        /\ frame[c].log = <<ERR_NO_ENTRY>>

\* C16: two calls on the same candidate, against the same block cache and
\* ledger state, end the same way, whichever ran first and whatever other
\* calls ran before or beside them (collaborators failing outside their
\* contracts aside).
C16_Deterministic ==
    \A c, d \in Calls :
        ( /\ IsDone(c) /\ IsDone(d)
          /\ frame[c].block_wrapper = frame[d].block_wrapper
          /\ frame[c].failure.kind # "unexpected"
          /\ frame[d].failure.kind # "unexpected" )
        => /\ Outcome(c) = Outcome(d)
           /\ frame[c].log = frame[d].log

C16_Witness ==
    /\ IsDone(1) /\ IsDone(2)
    /\ frame[1].block_wrapper = frame[2].block_wrapper
    /\ PreviousInCache(1)
    /\ Reached(1, "check_valid") /\ Reached(2, "check_valid")
    /\ frame[1].failure.kind = "validation"
    /\ frame[2].failure.kind = "validation"
    /\ frame[1].result = "True" /\ frame[2].result = "True"

\* The collaborator calls of verify_block, in the order of its lines.
CallOrder ==
    <<"block_cache", "create_view", "get_poet_enclave_module",
      "get_validators", "get_validator_info", "build_certificate_list",
      "deserialize_wait_certificate", "check_valid">>

\* C17: the collaborator calls of one verify_block call happen in the order
\* cache lookup, view creation, enclave module selection, registry count,
\* identity lookup, history walk, deserialization, check_valid, each at most
\* once.  Over an empty registry the call ends with the registry count: no
\* lookup, walk, deserialization or check.  When the identity lookup fails the
\* call ends with it: no ancestor fetched, nothing deserialized or checked.
C17_OrderAndShortCircuit ==
    \A c \in Calls :
        /\ Len(frame[c].steps) <= Len(CallOrder)
        /\ \A i \in 1..Len(frame[c].steps) : frame[c].steps[i] = CallOrder[i]
        /\ (Performed(c, "get_validators") /\ RegistryOf(c) = {})
              => /\ IsDone(c)
                 /\ Len(frame[c].steps) = 4
                 /\ frame[c].validator_info = NoValidatorInfo
                 /\ frame[c].fetched = 0
                 /\ frame[c].wait_certificate = NoCertificate
                 /\ frame[c].checked = NoCheck
        /\ frame[c].failure.site = "get_validator_info"
              => /\ IsDone(c)
                 /\ Len(frame[c].steps) = 5
                 /\ frame[c].fetched = 0
                 /\ frame[c].certificates = <<>>
                 /\ frame[c].wait_certificate = NoCertificate
                 /\ frame[c].checked = NoCheck

\* A call whose lookup found no entry for the signer, its previous block
\* cached and certified, has ended.
C17_Witness ==
    \E c \in Calls :
        /\ IsDone(c)
        /\ frame[c].failure =
              [site |-> "get_validator_info", kind |-> "not_found"]
        /\ frame[c].steps = SubSeq(CallOrder, 1, 5)
        /\ HasCertificate(frame[c].block_wrapper.previous_block_id)
        /\ frame[c].fetched = 0

\* C18: a verify_block call creates one state view, for one state root; the
\* enclave module and the registry view of the call are bound to that view,
\* so the registry that decides acceptance by default and the module that
\* checks the certificate are of the same state root.
C18_OneViewPerCall ==
    \A c \in Calls :
        /\ frame[c].views <= 1
        /\ Performed(c, "create_view") =>
              /\ frame[c].views = 1
              /\ frame[c].state_view \in Roots
        /\ Performed(c, "get_poet_enclave_module") =>
              frame[c].poet_enclave_module = frame[c].state_view
        /\ Performed(c, "get_validators") =>
              /\ frame[c].validator_registry_view = frame[c].state_view
              /\ frame[c].validator_registry_view = frame[c].poet_enclave_module
        /\ Reached(c, "check_valid") =>
              frame[c].checked.poet_enclave_module
                  = frame[c].validator_registry_view

\* A call whose candidate's own state root differs from its previous block's
\* has had its certificate checked.
C18_Witness ==
    \E c \in Calls :
        /\ IsDone(c)
        /\ Reached(c, "check_valid")
        /\ PreviousInCache(c)
        /\ frame[c].block_wrapper.state_root_hash # frame[c].state_view
        /\ frame[c].checked.poet_enclave_module = frame[c].state_view
        /\ frame[c].validator_registry_view = frame[c].state_view

\* C19: check_valid is called on the certificate deserialized from the
\* candidate, with the sample built from the candidate's header in the same
\* call, and with the PoET public key of the registry record of the
\* candidate's signer: not the signer's own key, not another identity's.
C19_CheckValidArguments ==
    \A c \in Calls :
        Reached(c, "check_valid") =>
            LET b == frame[c].block_wrapper
                a == frame[c].checked
            IN /\ a.certificate = deserialize_wait_certificate(b)
               /\ a.certificate = frame[c].wait_certificate
               /\ a.certificates =
                     build_certificate_list(b, certificate_sample_length)
                         .certificates
               /\ a.certificates = frame[c].certificates
               /\ a.poet_public_key =
                     get_validator_info(b.signer_pubkey).poet_public_key
               /\ a.poet_public_key[1] = "poet"
               /\ \A k \in Keys \ {b.signer_pubkey} :
                     a.poet_public_key # PoetPublicKey(k)

C19_Witness ==
    \E c \in Calls :
        /\ IsDone(c)
        /\ Reached(c, "check_valid")
        /\ frame[c].failure.kind = "none"
        /\ frame[c].result = "True"
        /\ Len(frame[c].checked.certificates) = certificate_sample_length
        /\ frame[c].checked.poet_public_key
              = PoetPublicKey(frame[c].block_wrapper.signer_pubkey)

====
